---- MODULE Spec2Model ----
(***************************************************************************)
(* Model of the MPU9250 9-axis motion sensor driver (class MPU9250,        *)
(* MPU9250.h).  The header fixes the register map, the bit masks, the      *)
(* enumerations, the private state and the signatures and return           *)
(* conventions of the operations; the bodies of the operations follow the  *)
(* design description of the driver (sections 4.2 to 4.5 and 7).           *)
(*                                                                         *)
(* Every driver operation is synchronous and blocking, so each is one      *)
(* atomic action.  The bus and the device are the environment: a           *)
(* transaction may fail at any position of a call, and the bytes a read    *)
(* returns are inputs.                                                     *)
(***************************************************************************)
EXTENDS Integers, Sequences, FiniteSets, TLC

VARIABLES
    _opmode,      \* MEMS_MODE   _opmode  (private state)
    _magfs,       \* MSCALE      _magfs   (private state)
    dev,          \* registers of the two devices the claims read back
    op,           \* the operation that ran last
    args,         \* its arguments (setParameters only)
    bus,          \* the bus transactions it issued, in order
    ret,          \* its uint8_t status (0 when it returns none)
    who,          \* its bool result (testWhoAmI only)
    destination   \* the int16_t[3] buffer passed to it, zeroed before the call

vars == <<_opmode, _magfs, dev, op, args, bus, ret, who, destination>>

(***************************************************************************)
(* Constants of the header.                                                *)
(***************************************************************************)
\* Variant with the address for ADO = 1 (0x69<<1) while ADO is 0.
MPU9250_ADDRESS_ADO1 == 210
MPU9250_ADDRESS == 208     \* 0x68<<1, ADO = 0
AK8963_ADDRESS == 24       \* 0x0C<<1

\* Variant that takes the sleep bit for the reset bit.
MPU_H_RESET_AsSleep == 64
MPU_H_RESET == 128         \* 0x80
MPU_CYCLE == 32            \* 0x20
MPU_GYRO_STANDBY == 16     \* 0x10
MPU_TEMP_DIS == 8          \* 0x08
MPU_GYRO_DIS == 7          \* 0x07
MPU_BYPASS_EN == 2         \* 0x02

SMPLRT_DIV == 25           \* 0x19
CONFIG == 26               \* 0x1A
GYRO_CONFIG == 27          \* 0x1B
ACCEL_CONFIG == 28         \* 0x1C
ACCEL_CONFIG2 == 29        \* 0x1D
LP_ACCEL_ODR == 30         \* 0x1E
INT_PIN_CFG == 55          \* 0x37
ACCEL_XOUT_H == 59         \* 0x3B
ACCEL_XOUT_L == 60         \* 0x3C
ACCEL_YOUT_H == 61         \* 0x3D
ACCEL_YOUT_L == 62         \* 0x3E
ACCEL_ZOUT_H == 63         \* 0x3F
ACCEL_ZOUT_L == 64         \* 0x40
GYRO_XOUT_H == 67          \* 0x43
GYRO_XOUT_L == 68          \* 0x44
GYRO_YOUT_H == 69          \* 0x45
GYRO_YOUT_L == 70          \* 0x46
GYRO_ZOUT_H == 71          \* 0x47
GYRO_ZOUT_L == 72          \* 0x48
PWR_MGMT_1 == 107          \* 0x6B
PWR_MGMT_2 == 108          \* 0x6C
WHO_AM_I_MPU9250 == 117    \* 0x75

AK8963_ST1 == 2            \* data ready status bit 0
\* Variant with the low and the high X register at the same place.
AK8963_XOUT_L_AsHigh == 4
AK8963_XOUT_L == 3
AK8963_XOUT_H == 4
AK8963_YOUT_L == 5
AK8963_YOUT_H == 6
AK8963_ZOUT_L == 7
AK8963_ZOUT_H == 8
\* Variant that reads the first status register where the second is meant.
AK8963_ST2_AsSt1 == 2
AK8963_ST2 == 9            \* data overflow bit 3
AK8963_CNTL == 10          \* 0x0A

AFS_2G == 0
AFS_16G == 24              \* 0x18
ACCEL_BW_99 == 2
ACCEL_BW_21 == 4
ACCEL_BW_5 == 6
DLPF_92 == 2
DLPF_20 == 4
DLPF_5 == 6
ACCEL_DR_00781 == 5
ACCEL_DR_01563 == 6
GFS_250DPS == 0
GFS_2000DPS == 24          \* 0x18
MFS_14BITS == 0
MFS_16BITS == 16           \* 0x10
MFS_PWRNDN == 0
\* Variant that takes the first continuous mode for the single shot mode.
MFS_SINGLE_AsCont1 == 2
\* Variant that takes the self test mode (MFS_STEST) for the single shot mode.
MFS_SINGLE_AsSelfTest == 8
MFS_SINGLE == 1
MFS_CONT1 == 2
\* Variant that uses the first continuous mode for both continuous modes.
MFS_CONT2_AsCont1 == 2
MFS_CONT2 == 6
CLK_AUTO == 1
\* Variant with the identity of the AK8963 magnetometer (0x48).
I_AM_MPU9250_AsAK8963 == 72
I_AM_MPU9250 == 113        \* 0x71
VLP_ACC == 1
LP_ACCMAG == 2
HP_ALL == 3
HPP_ALL == 4

MEMS_MODE == {VLP_ACC, LP_ACCMAG, HP_ALL, HPP_ALL}
MSCALE == {MFS_14BITS, MFS_16BITS}
ASCALE == {AFS_16G}
GSCALE == {GFS_2000DPS}

(***************************************************************************)
(* Status values of the operations, as their @return comments give them.   *)
(***************************************************************************)
MAG_GOOD == 0
MAG_NO_DATA == 1
MAG_ERROR == 2
GYRO_GOOD == 0
GYRO_DISABLED == 1

(***************************************************************************)
(* Masks of the magnetometer status registers, from the comments of the    *)
(* register map: data ready is bit 0 of ST1, data overflow bit 3 of ST2.   *)
(***************************************************************************)
\* Variant that takes the data overrun bit (bit 1) for the data ready bit.
ST1_DRDY_AsOverrun == 2
ST1_DRDY == 1
\* Variant that takes the data read error bit (bit 2) for the overflow bit.
ST2_ReadErrorBit == 4
ST2_HOFL == 8

(***************************************************************************)
(* Inputs of the environment.                                              *)
(***************************************************************************)
\* Positions of a call at which the transport may fail (0: nowhere).
MaxFailAt == 8
\* The non-zero statuses a failed transaction returns; 1..MaxFailStatus.
MaxFailStatus == 2
FailStatus == 1..MaxFailStatus

\* Pairs of bytes two consecutive output registers may hold: unequal bytes,
\* the sign bit in either byte, the largest and the smallest 16-bit values.
BytePairs == {<<0, 1>>, <<127, 255>>, <<128, 0>>, <<255, 128>>}
\* Six consecutive output registers: the pair, the pair swapped, the pair, so
\* that each pair is met in both byte orders.
Samples == {<<p[1], p[2], p[2], p[1], p[1], p[2]>> : p \in BytePairs}
\* What a buffer holds when nothing is read into it.
NoSample == <<0, 0, 0, 0, 0, 0>>
\* The caller's buffer before a call.
NoValues == <<0, 0, 0>>
\* Values of the identity register.
WhoVals == {I_AM_MPU9250, 112, 72, 0, 255}
\* Values of the magnetometer status registers.
St1Vals == {0, 1, 2, 3}
St2Vals == {0, 8, 16, 24}

(***************************************************************************)
(* Bit arithmetic on uint8_t.                                              *)
(***************************************************************************)
RECURSIVE BitAnd(_, _)
BitAnd(a, b) ==
    IF a = 0 \/ b = 0 THEN 0
    ELSE (IF a % 2 = 1 /\ b % 2 = 1 THEN 1 ELSE 0) + 2 * BitAnd(a \div 2, b \div 2)

RECURSIVE BitOr(_, _)
BitOr(a, b) ==
    IF a = 0 THEN b
    ELSE IF b = 0 THEN a
    ELSE (IF a % 2 = 1 \/ b % 2 = 1 THEN 1 ELSE 0) + 2 * BitOr(a \div 2, b \div 2)

\* (int16_t) of a 16-bit pattern
ToInt16(v) == IF v % 65536 >= 32768 THEN (v % 65536) - 65536 ELSE v % 65536

(***************************************************************************)
(* The bus and the device.                                                 *)
(***************************************************************************)
\* One bus transaction: a register write or a register read of n bytes at a
\* device address, the bytes transferred, and the status it returned.
Txn(addr, reg, rw, n, data, st) ==
    [addr |-> addr, reg |-> reg, rw |-> rw, n |-> n, data |-> data, st |-> st]

\* The magnetometer answers on the shared bus only while the bypass bit of
\* INT_PIN_CFG is set; the primary device always answers.
Reachable(addr, d) ==
    addr = MPU9250_ADDRESS \/ BitAnd(d.intcfg, MPU_BYPASS_EN) # 0

\* The registers after the reset of PWR_MGMT_1: those of the MPU9250 are at
\* their power-on defaults; the AK8963 is a device of its own and keeps its.
DevReset(d) == [d EXCEPT !.intcfg = 0, !.pwr2 = 0]

\* The device after an acknowledged one-byte write w = [addr, reg, val].
DevWrite(d, w) ==
    IF w.addr = MPU9250_ADDRESS /\ w.reg = PWR_MGMT_1
          /\ BitAnd(w.val, MPU_H_RESET) # 0 THEN DevReset(d)
    ELSE IF w.addr = MPU9250_ADDRESS /\ w.reg = INT_PIN_CFG
        THEN [d EXCEPT !.intcfg = w.val]
    ELSE IF w.addr = MPU9250_ADDRESS /\ w.reg = PWR_MGMT_2
        THEN [d EXCEPT !.pwr2 = w.val]
    ELSE IF w.addr = AK8963_ADDRESS /\ w.reg = AK8963_CNTL
        THEN [d EXCEPT !.cntl = w.val]
    ELSE d

W(addr, reg, val) == [addr |-> addr, reg |-> reg, val |-> val]

\* writeRegister / writeMagRegister called for ws[1], ws[2], ... in turn as
\* transactions base + 1, base + 2, ... of a call, the caller returning at
\* the first non-zero status.  Transaction number f of the call fails in the
\* transport (f = 0: none does) with status fs; a transaction to an address
\* that does not answer fails too.
\* The first of the writes ws[k], ws[k+1], ... that fails (0: none does) and
\* the device after the writes acknowledged before it.
RECURSIVE RunWrites(_, _, _, _, _)
RunWrites(ws, k, base, f, d) ==
    IF k > Len(ws) THEN [bad |-> 0, dev |-> d]
    ELSE IF f = base + k \/ ~Reachable(ws[k].addr, d) THEN [bad |-> k, dev |-> d]
    ELSE RunWrites(ws, k + 1, base, f, DevWrite(d, ws[k]))

WriteAllTo(ws, fs, r) ==
    [log |-> [k \in 1..(IF r.bad = 0 THEN Len(ws) ELSE r.bad) |->
                Txn(ws[k].addr, ws[k].reg, "w", 1, <<ws[k].val>>,
                    IF k = r.bad THEN fs ELSE 0)],
     dev |-> r.dev,
     st |-> IF r.bad = 0 THEN 0 ELSE fs]

WriteAll(ws, base, f, fs, d) == WriteAllTo(ws, fs, RunWrites(ws, 1, base, f, d))

\* readRegister / readMagRegister as transaction number n of a call: the bytes
\* reach the caller's buffer only when the transaction succeeds.
ReadTxn(addr, reg, cnt, bytes, n, f, fs, d) ==
    LET bad == f = n \/ ~Reachable(addr, d)
    IN  Txn(addr, reg, "r", cnt, IF bad THEN <<>> ELSE bytes, IF bad THEN fs ELSE 0)

(***************************************************************************)
(* Decoding of the raw bytes.  rawData[i] is the byte of register base + i *)
(* (the device auto-increments), so the register map decides which byte of *)
(* a pair is the high one.                                                 *)
(***************************************************************************)
\* (int16_t)(((int16_t)hi << 8) | lo)
Pair(hi, lo) == ToInt16(BitOr((hi * 256) % 65536, lo))

At(raw, base, reg) == raw[reg - base + 1]

DecodeAccel(raw) ==
    << Pair(At(raw, ACCEL_XOUT_H, ACCEL_XOUT_H), At(raw, ACCEL_XOUT_H, ACCEL_XOUT_L)),
       Pair(At(raw, ACCEL_XOUT_H, ACCEL_YOUT_H), At(raw, ACCEL_XOUT_H, ACCEL_YOUT_L)),
       Pair(At(raw, ACCEL_XOUT_H, ACCEL_ZOUT_H), At(raw, ACCEL_XOUT_H, ACCEL_ZOUT_L)) >>

DecodeGyro(raw) ==
    << Pair(At(raw, GYRO_XOUT_H, GYRO_XOUT_H), At(raw, GYRO_XOUT_H, GYRO_XOUT_L)),
       Pair(At(raw, GYRO_XOUT_H, GYRO_YOUT_H), At(raw, GYRO_XOUT_H, GYRO_YOUT_L)),
       Pair(At(raw, GYRO_XOUT_H, GYRO_ZOUT_H), At(raw, GYRO_XOUT_H, GYRO_ZOUT_L)) >>

DecodeMag(raw) ==
    << Pair(At(raw, AK8963_XOUT_L, AK8963_XOUT_H), At(raw, AK8963_XOUT_L, AK8963_XOUT_L)),
       Pair(At(raw, AK8963_XOUT_L, AK8963_YOUT_H), At(raw, AK8963_XOUT_L, AK8963_YOUT_L)),
       Pair(At(raw, AK8963_XOUT_L, AK8963_ZOUT_H), At(raw, AK8963_XOUT_L, AK8963_ZOUT_L)) >>

(***************************************************************************)
(* What each operating mode switches on (enum MEMS_MODE and the mode list  *)
(* of setParameters).                                                      *)
(***************************************************************************)
\* Variants with the boundary between the modes off by one.
GyroEnabledFromLowPower(mode) == mode \in {LP_ACCMAG, HP_ALL, HPP_ALL}
GyroEnabledPerformanceOnly(mode) == mode \in {HPP_ALL}

\* Modes 3 and 4 run the gyroscope; modes 1 and 2 do not.
GyroEnabled(mode) == mode \in {HP_ALL, HPP_ALL}

\* The magnetometer's measurement mode: off in mode 1, single shot in mode 2,
\* continuous at the lower rate in mode 3 and at the higher rate in mode 4.
MagSubmode(mode) ==
    IF mode = VLP_ACC THEN MFS_PWRNDN
    ELSE IF mode = LP_ACCMAG THEN MFS_SINGLE
    ELSE IF mode = HP_ALL THEN MFS_CONT1
    ELSE MFS_CONT2

(***************************************************************************)
(* bool testWhoAmI(void): one read of the identity register; true only     *)
(* when the read succeeded and returned I_AM_MPU9250.                      *)
(***************************************************************************)
WhoAmIValid(t) == t.st = 0 /\ t.data[1] = I_AM_MPU9250

TestWhoAmIOp(d, n, f, fs, id) ==
    LET t == ReadTxn(MPU9250_ADDRESS, WHO_AM_I_MPU9250, 1, <<id>>, n, f, fs, d)
    IN  [log |-> <<t>>, valid |-> WhoAmIValid(t)]

(***************************************************************************)
(* uint8_t init(void): reset, clock select and wake, bypass enable, then   *)
(* the identity check.  The first failed write ends it with that write's   *)
(* status; a failed identity check ends it with a non-zero status.         *)
(***************************************************************************)
InitWrites ==
    << W(MPU9250_ADDRESS, PWR_MGMT_1, MPU_H_RESET),
       W(MPU9250_ADDRESS, PWR_MGMT_1, CLK_AUTO),
       W(MPU9250_ADDRESS, INT_PIN_CFG, MPU_BYPASS_EN) >>

InitOp(d, f, fs, id) ==
    LET r == WriteAll(InitWrites, 0, f, fs, d)
    IN  IF r.st # 0 THEN r
        ELSE LET w == TestWhoAmIOp(r.dev, Len(r.log) + 1, f, fs, id)
             IN  [log |-> r.log \o w.log, dev |-> r.dev,
                  st |-> IF w.valid THEN 0 ELSE 1]

(***************************************************************************)
(* uint8_t setParameters(opmode, accelfs, magfs, gyrofs): the register     *)
(* writes that realize the mode, the magnetometer control register last.   *)
(* _opmode and _magfs are recorded only after every write succeeded.       *)
(***************************************************************************)
Pwr1Of(mode) ==
    IF mode = VLP_ACC THEN BitOr(BitOr(MPU_CYCLE, MPU_GYRO_STANDBY), MPU_TEMP_DIS)
    ELSE IF mode = LP_ACCMAG THEN MPU_CYCLE
    ELSE CLK_AUTO

Pwr2Of(mode) == IF GyroEnabled(mode) THEN 0 ELSE MPU_GYRO_DIS

AccelBwOf(mode) ==
    IF mode = HPP_ALL THEN ACCEL_BW_99
    ELSE IF mode = HP_ALL THEN ACCEL_BW_21
    ELSE ACCEL_BW_5

DlpfOf(mode) ==
    IF mode = HPP_ALL THEN DLPF_92
    ELSE IF mode = HP_ALL THEN DLPF_20
    ELSE DLPF_5

\* The rate: the low-power output data rate in the cycled modes (7.81 Hz,
\* 15.63 Hz), else the divider of the 1 kHz sample rate (50 Hz, 250 Hz).
RateWrite(mode) ==
    IF mode = VLP_ACC THEN W(MPU9250_ADDRESS, LP_ACCEL_ODR, ACCEL_DR_00781)
    ELSE IF mode = LP_ACCMAG THEN W(MPU9250_ADDRESS, LP_ACCEL_ODR, ACCEL_DR_01563)
    ELSE IF mode = HP_ALL THEN W(MPU9250_ADDRESS, SMPLRT_DIV, 19)
    ELSE W(MPU9250_ADDRESS, SMPLRT_DIV, 3)

MagCntl(magfs, submode) == BitOr(magfs, submode)

\* The writes of every mode and scale selection, computed once.
ParameterTable ==
    [mode \in MEMS_MODE, accelfs \in ASCALE, magfs \in MSCALE, gyrofs \in GSCALE |->
        << W(MPU9250_ADDRESS, PWR_MGMT_1, Pwr1Of(mode)),
           W(MPU9250_ADDRESS, PWR_MGMT_2, Pwr2Of(mode)),
           W(MPU9250_ADDRESS, GYRO_CONFIG, gyrofs),
           W(MPU9250_ADDRESS, ACCEL_CONFIG, accelfs),
           W(MPU9250_ADDRESS, ACCEL_CONFIG2, AccelBwOf(mode)),
           RateWrite(mode),
           W(MPU9250_ADDRESS, CONFIG, DlpfOf(mode)),
           W(AK8963_ADDRESS, AK8963_CNTL, MagCntl(magfs, MagSubmode(mode))) >> ]

ParameterWrites(mode, accelfs, magfs, gyrofs) ==
    ParameterTable[mode, accelfs, magfs, gyrofs]

\* Variant that records the request whatever the writes returned.
RecordedAlways(st, old, new) == new

\* The configuration recorded after the writes ended with status st.
Recorded(st, old, new) == IF st = 0 THEN new ELSE old

SetParametersOp(d, mode, accelfs, magfs, gyrofs, f, fs) ==
    WriteAll(ParameterWrites(mode, accelfs, magfs, gyrofs), 0, f, fs, d)

(***************************************************************************)
(* void readAccelData(int16_t * destination): one 6-byte read at           *)
(* ACCEL_XOUT_H, decoded big-endian.  It returns nothing; after a failed   *)
(* read it decodes the buffer as it is (raw then stands for whatever the   *)
(* buffer held).                                                           *)
(***************************************************************************)
ReadAccelOp(d, f, fs, raw) ==
    LET t == ReadTxn(MPU9250_ADDRESS, ACCEL_XOUT_H, 6, raw, 1, f, fs, d)
    IN  [log |-> <<t>>, st |-> 0, dest |-> DecodeAccel(raw)]

(***************************************************************************)
(* uint8_t readGyroData(int16_t * destination): 1 without a transaction    *)
(* when the mode has the gyroscope off, else one 6-byte read at            *)
(* GYRO_XOUT_H.                                                            *)
(***************************************************************************)
\* Variant that reports every failure as 1, whatever the transport returned.
ReadGyroOpErrorAsOne(d, mode, dest, f, fs, raw) ==
    IF ~GyroEnabled(mode) THEN [log |-> <<>>, st |-> GYRO_DISABLED, dest |-> dest]
    ELSE LET t == ReadTxn(MPU9250_ADDRESS, GYRO_XOUT_H, 6, raw, 1, f, fs, d)
         IN  IF t.st # 0 THEN [log |-> <<t>>, st |-> 1, dest |-> dest]
             ELSE [log |-> <<t>>, st |-> GYRO_GOOD, dest |-> DecodeGyro(t.data)]

ReadGyroOp(d, mode, dest, f, fs, raw) ==
    IF ~GyroEnabled(mode) THEN [log |-> <<>>, st |-> GYRO_DISABLED, dest |-> dest]
    ELSE LET t == ReadTxn(MPU9250_ADDRESS, GYRO_XOUT_H, 6, raw, 1, f, fs, d)
         IN  IF t.st # 0 THEN [log |-> <<t>>, st |-> t.st, dest |-> dest]
             ELSE [log |-> <<t>>, st |-> GYRO_GOOD, dest |-> DecodeGyro(t.data)]

(***************************************************************************)
(* uint8_t readMagData(int16_t * destination): ST1, then the six data      *)
(* bytes, then ST2, then in the single-shot mode the write that starts the *)
(* next measurement.                                                       *)
(***************************************************************************)
\* The mode in which the magnetometer is triggered once per sample.
MagSingleShot(mode) == MagSubmode(mode) = MFS_SINGLE

\* Bits 3:0 of AK8963_CNTL, the measurement mode of the magnetometer.
MagMode(d) == d.cntl % 16

\* The magnetometer once ST1 was read as st1: a single measurement that has
\* delivered its sample (ready bit set) has put the magnetometer back to
\* power down, the resolution bit staying as written.
MagSampled(d, st1) ==
    IF BitAnd(st1, ST1_DRDY) # 0 /\ MagMode(d) = MFS_SINGLE
    THEN [d EXCEPT !.cntl = d.cntl - MFS_SINGLE + MFS_PWRNDN]
    ELSE d

ReadMagOp(d, mode, magfs, dest, f, fs, st1, raw, st2) ==
    LET t1 == ReadTxn(AK8963_ADDRESS, AK8963_ST1, 1, <<st1>>, 1, f, fs, d)
        t2 == ReadTxn(AK8963_ADDRESS, AK8963_XOUT_L, 6, raw, 2, f, fs, d)
        t3 == ReadTxn(AK8963_ADDRESS, AK8963_ST2, 1, <<st2>>, 3, f, fs, d)
        d1 == MagSampled(d, st1)
        arm == WriteAll(<<W(AK8963_ADDRESS, AK8963_CNTL, MagCntl(magfs, MFS_SINGLE))>>,
                        3, f, fs, d1)
    IN  IF t1.st # 0 THEN [log |-> <<t1>>, dev |-> d, st |-> t1.st, dest |-> dest]
        ELSE IF BitAnd(t1.data[1], ST1_DRDY) = 0
            THEN [log |-> <<t1>>, dev |-> d, st |-> MAG_NO_DATA, dest |-> dest]
        ELSE IF t2.st # 0
            THEN [log |-> <<t1, t2>>, dev |-> d1, st |-> t2.st, dest |-> dest]
        ELSE IF t3.st # 0
            THEN [log |-> <<t1, t2, t3>>, dev |-> d1, st |-> t3.st, dest |-> dest]
        ELSE IF BitAnd(t3.data[1], ST2_HOFL) # 0
            THEN [log |-> <<t1, t2, t3>>, dev |-> d1, st |-> MAG_ERROR, dest |-> dest]
        ELSE IF MagSingleShot(mode)
            THEN [log |-> <<t1, t2, t3>> \o arm.log, dev |-> arm.dev, st |-> arm.st,
                  dest |-> DecodeMag(t2.data)]
        ELSE [log |-> <<t1, t2, t3>>, dev |-> d1, st |-> MAG_GOOD,
              dest |-> DecodeMag(t2.data)]

(***************************************************************************)
(* The state machine.                                                      *)
(***************************************************************************)
\* The driver object as its constructor finds it: the device is at its
\* power-on defaults and nothing has run.  The header gives _opmode and
\* _magfs no initializer, so they hold any value.
Init ==
    /\ _opmode \in MEMS_MODE
    /\ _magfs \in MSCALE
    /\ dev = [intcfg |-> 0, pwr2 |-> 0, cntl |-> 0]
    /\ op = "none"
    /\ args = <<>>
    /\ bus = <<>>
    /\ ret = 0
    /\ who = FALSE
    /\ destination = NoValues

\* init is private: it runs once, from the constructor, and the public
\* operations run on the constructed object.
Constructed == op # "none"

\* Variant in which init, having reset the device, also resets the recorded
\* configuration.
initResetsRecorded(f, fs, id) ==
    \E r \in {InitOp(dev, f, fs, id)} :
        /\ ~Constructed
        /\ op' = "init"
        /\ args' = <<>>
        /\ bus' = r.log
        /\ dev' = r.dev
        /\ ret' = r.st
        /\ who' = FALSE
        /\ destination' = NoValues
        /\ _opmode' = VLP_ACC
        /\ _magfs' = MFS_14BITS

init(f, fs, id) ==
    \E r \in {InitOp(dev, f, fs, id)} :
        /\ ~Constructed
        /\ op' = "init"
        /\ args' = <<>>
        /\ bus' = r.log
        /\ dev' = r.dev
        /\ ret' = r.st
        /\ who' = FALSE
        /\ destination' = NoValues
        /\ UNCHANGED <<_opmode, _magfs>>

testWhoAmI(f, fs, id) ==
    \E r \in {TestWhoAmIOp(dev, 1, f, fs, id)} :
        /\ Constructed
        /\ op' = "testWhoAmI"
        /\ args' = <<>>
        /\ bus' = r.log
        /\ ret' = 0
        /\ who' = r.valid
        /\ destination' = NoValues
        /\ UNCHANGED <<_opmode, _magfs, dev>>

setParameters(mode, accelfs, magfs, gyrofs, f, fs) ==
    \E r \in {SetParametersOp(dev, mode, accelfs, magfs, gyrofs, f, fs)} :
        /\ Constructed
        /\ op' = "setParameters"
        /\ args' = <<mode, accelfs, magfs, gyrofs>>
        /\ bus' = r.log
        /\ dev' = r.dev
        /\ ret' = r.st
        /\ who' = FALSE
        /\ _opmode' = Recorded(r.st, _opmode, mode)
        /\ _magfs' = Recorded(r.st, _magfs, magfs)
        /\ destination' = NoValues

readAccelData(f, fs, raw) ==
    \E r \in {ReadAccelOp(dev, f, fs, raw)} :
        /\ Constructed
        /\ op' = "readAccelData"
        /\ args' = <<>>
        /\ bus' = r.log
        /\ ret' = r.st
        /\ who' = FALSE
        /\ destination' = r.dest
        /\ UNCHANGED <<_opmode, _magfs, dev>>

readGyroData(f, fs, raw) ==
    \E r \in {ReadGyroOp(dev, _opmode, NoValues, f, fs, raw)} :
        /\ Constructed
        /\ op' = "readGyroData"
        /\ args' = <<>>
        /\ bus' = r.log
        /\ ret' = r.st
        /\ who' = FALSE
        /\ destination' = r.dest
        /\ UNCHANGED <<_opmode, _magfs, dev>>

readMagData(f, fs, st1, raw, st2) ==
    \E r \in {ReadMagOp(dev, _opmode, _magfs, NoValues, f, fs, st1, raw, st2)} :
        /\ Constructed
        /\ op' = "readMagData"
        /\ args' = <<>>
        /\ bus' = r.log
        /\ dev' = r.dev
        /\ ret' = r.st
        /\ who' = FALSE
        /\ destination' = r.dest
        /\ UNCHANGED <<_opmode, _magfs>>

\* The transport may fail at any transaction of a call: n is the most
\* transactions the operation issues.
FailAt(n) == 0..(IF n < MaxFailAt THEN n ELSE MaxFailAt)

\* Inputs that a call never looks at are left at a fixed value.
StatusFor(f) == IF f = 0 THEN {1} ELSE FailStatus
WhoFor(used) == IF used THEN WhoVals ELSE {0}
RawFor(used) == IF used THEN Samples ELSE {NoSample}
St2For(used) == IF used THEN St2Vals ELSE {0}

Next ==
    \/ \E f \in FailAt(4) : \E fs \in StatusFor(f), id \in WhoFor(f = 0) :
            init(f, fs, id)
    \/ \E f \in FailAt(1) : \E fs \in StatusFor(f), id \in WhoFor(f = 0) :
            testWhoAmI(f, fs, id)
    \/ \E mode \in MEMS_MODE, accelfs \in ASCALE, magfs \in MSCALE, gyrofs \in GSCALE,
          f \in FailAt(8) : \E fs \in StatusFor(f) :
            setParameters(mode, accelfs, magfs, gyrofs, f, fs)
    \/ \E f \in FailAt(1), raw \in Samples : \E fs \in StatusFor(f) :
            readAccelData(f, fs, raw)
    \/ \E f \in FailAt(1) : \E fs \in StatusFor(f),
             raw \in RawFor(f = 0 /\ GyroEnabled(_opmode)) :
            readGyroData(f, fs, raw)
    \/ \E f \in FailAt(IF MagSingleShot(_opmode) THEN 4 ELSE 3), st1 \in St1Vals :
          \E fs \in StatusFor(f),
             raw \in RawFor(f \notin {1, 2} /\ BitAnd(st1, ST1_DRDY) # 0) :
              \E st2 \in St2For(raw # NoSample /\ f # 3) :
                  readMagData(f, fs, st1, raw, st2)

Spec == Init /\ [][Next]_vars

(***************************************************************************)
(* The driver on a bus that never fails, with a magnetometer that sets the *)
(* ready bit only for a measurement that was started: in power down it     *)
(* measures nothing, and a single measurement ends in power down.          *)
(***************************************************************************)
St1Of(d) == {s \in St1Vals : BitAnd(s, ST1_DRDY) # 0 => MagMode(d) # MFS_PWRNDN}

NextSingleShot ==
    \/ \E id \in WhoVals : init(0, 1, id)
    \/ \E id \in WhoVals : testWhoAmI(0, 1, id)
    \/ \E mode \in MEMS_MODE, accelfs \in ASCALE, magfs \in MSCALE, gyrofs \in GSCALE :
            setParameters(mode, accelfs, magfs, gyrofs, 0, 1)
    \/ \E raw \in Samples : readAccelData(0, 1, raw)
    \/ \E raw \in RawFor(GyroEnabled(_opmode)) : readGyroData(0, 1, raw)
    \/ \E st1 \in St1Of(dev) :
          \E raw \in RawFor(BitAnd(st1, ST1_DRDY) # 0) :
              \E st2 \in St2For(raw # NoSample) :
                  readMagData(0, 1, st1, raw, st2)

SpecSingleShot == Init /\ [][NextSingleShot]_vars

(***************************************************************************)
(* The claims.  They read the last operation (op), its arguments (args),   *)
(* the transactions it issued (bus), what it returned (ret, who) and what  *)
(* it left in the caller's buffer (destination).  Register numbers, masks  *)
(* and status values are written here as the register map gives them.     *)
(***************************************************************************)
PrimaryAddr == 208        \* MPU9250_ADDRESS
MagAddr == 24             \* AK8963_ADDRESS
RegIntPinCfg == 55        \* INT_PIN_CFG
RegAccelOut == 59         \* ACCEL_XOUT_H
RegGyroOut == 67          \* GYRO_XOUT_H
RegPwrMgmt1 == 107        \* PWR_MGMT_1
RegWhoAmI == 117          \* WHO_AM_I_MPU9250
IdMPU9250 == 113          \* I_AM_MPU9250
RegMagSt1 == 2            \* AK8963_ST1
RegMagOut == 3            \* AK8963_XOUT_L
RegMagSt2 == 9            \* AK8963_ST2
RegMagCntl == 10          \* AK8963_CNTL

Bit(v, k) == (v \div (2 ^ k)) % 2 = 1
S16(n) == IF n >= 32768 THEN n - 65536 ELSE n
\* Axis i (1..3) of six bytes, high byte first and low byte first.
BigEndian(d, i) == S16(d[2 * i - 1] * 256 + d[2 * i])
LittleEndian(d, i) == S16(d[2 * i] * 256 + d[2 * i - 1])

IsRead(t, addr, reg, n) == t.rw = "r" /\ t.addr = addr /\ t.reg = reg /\ t.n = n
IsWrite(t, addr, reg) == t.rw = "w" /\ t.addr = addr /\ t.reg = reg
AllOk(log) == \A i \in DOMAIN log : log[i].st = 0
CntlWrites(log) == {i \in DOMAIN log : IsWrite(log[i], MagAddr, RegMagCntl)}

\* C1: a setParameters call that returns non-zero leaves _opmode and _magfs
\* as they were before the call, wherever its failing write is, and a
\* following readGyroData / readMagData gates by that mode; the recorded
\* configuration becomes (mode, magScale) only when every write succeeded and
\* the call returns 0.
C1_SetParametersAllOrNothing ==
    [][ /\ op' = "setParameters" =>
            /\ ret' # 0 => (_opmode' = _opmode /\ _magfs' = _magfs)
            /\ ~AllOk(bus') => ret' # 0
            /\ ret' = 0 => (AllOk(bus') /\ _opmode' = args'[1] /\ _magfs' = args'[3])
            /\ <<_opmode', _magfs'>> # <<_opmode, _magfs>> => (ret' = 0 /\ AllOk(bus'))
        /\ op' = "readGyroData" => ((bus' = <<>>) <=> _opmode \in {VLP_ACC, LP_ACCMAG})
        /\ op' = "readMagData" => (CntlWrites(bus') # {} => _opmode = LP_ACCMAG)
      ]_vars

\* A setParameters call failed at its last write while asking for another mode.
C1_Witness ==
    /\ op = "setParameters"
    /\ ret # 0
    /\ Len(bus) = 8
    /\ args[1] # _opmode
    /\ args[3] # _magfs

\* C2: while the recorded mode is VLP_ACC or LP_ACCMAG, every readGyroData call
\* returns the "disabled" status 1 and issues no bus transaction.
C2_GyroDisabledNoBus ==
    (op = "readGyroData" /\ _opmode \in {VLP_ACC, LP_ACCMAG}) =>
        (ret = 1 /\ bus = <<>>)

\* readGyroData ran in LP_ACCMAG with the gyroscope powered down by a
\* setParameters call.
C2_Witness ==
    /\ op = "readGyroData"
    /\ _opmode = LP_ACCMAG
    /\ Bit(dev.pwr2, 0)
    /\ ret = 1

\* The statuses of readMagData when the status bits it read say so.
MagReadyClear == Len(bus) >= 1 /\ bus[1].st = 0 /\ ~Bit(bus[1].data[1], 0)
MagReadySet == Len(bus) >= 1 /\ bus[1].st = 0 /\ Bit(bus[1].data[1], 0)
MagSt2Read == Len(bus) >= 3 /\ bus[2].st = 0 /\ bus[3].st = 0
MagDataReads == {i \in DOMAIN bus : IsRead(bus[i], MagAddr, RegMagOut, 6)}
MagDecoded == \A i \in 1..3 : destination[i] = LittleEndian(bus[2].data, i)

\* C3 as stated: in every mode the status bits alone decide the status of
\* readMagData: ready clear gives 1 and no data read, ready and overflow set
\* give 2, ready set and overflow clear give 0 with the decoded values.
C3_StatusFromBitsAlone ==
    op = "readMagData" =>
        /\ MagReadyClear => (ret = 1 /\ MagDataReads = {})
        /\ (MagReadySet /\ MagSt2Read /\ Bit(bus[3].data[1], 3)) => ret = 2
        /\ (MagReadySet /\ MagSt2Read /\ ~Bit(bus[3].data[1], 3)) =>
                (ret = 0 /\ MagDecoded)

\* C3 as amended: the status bits decide the status of a readMagData call in
\* which no bus transaction failed; with ready set and overflow clear, a
\* failed re-arming write (LP_ACCMAG) gives that write's non-zero status
\* instead of 0.
C3_StatusFromBits ==
    op = "readMagData" =>
        /\ MagReadyClear => (ret = 1 /\ MagDataReads = {})
        /\ (MagReadySet /\ MagSt2Read /\ Bit(bus[3].data[1], 3)) => ret = 2
        /\ (MagReadySet /\ MagSt2Read /\ ~Bit(bus[3].data[1], 3)) =>
                /\ MagDecoded
                /\ AllOk(bus) => ret = 0
                /\ ~AllOk(bus) =>
                      (_opmode = LP_ACCMAG /\ Len(bus) = 4 /\ ret = bus[4].st /\ ret # 0)

\* readMagData met the overflow bit with the ready bit set.
C3_Witness ==
    /\ op = "readMagData"
    /\ MagReadySet
    /\ MagSt2Read
    /\ Bit(bus[3].data[1], 3)
    /\ ret = 2

\* C4: a readMagData call that returns 0 in LP_ACCMAG issues exactly one write
\* to AK8963_CNTL, selecting single measurement, after its data read; a call
\* in HP_ALL or HPP_ALL issues no write to AK8963_CNTL.
C4_RearmOnlyInSingleShot ==
    op = "readMagData" =>
        /\ (_opmode = LP_ACCMAG /\ ret = 0) =>
              /\ Cardinality(CntlWrites(bus)) = 1
              /\ \A i \in CntlWrites(bus) :
                    /\ bus[i].data[1] % 16 = 1
                    /\ \E j \in MagDataReads : j < i
        /\ _opmode \in {HP_ALL, HPP_ALL} => CntlWrites(bus) = {}

\* A good read in LP_ACCMAG, and so a re-arming write.
C4_Witness ==
    /\ op = "readMagData"
    /\ _opmode = LP_ACCMAG
    /\ ret = 0
    /\ CntlWrites(bus) # {}

C6_MagnetometerBehindBypass ==
    /\ \A i \in DOMAIN bus : bus[i].addr = MagAddr => Bit(dev.intcfg, 1)
    /\ \A i \in DOMAIN bus :
          IsWrite(bus[i], PrimaryAddr, RegIntPinCfg) => Bit(bus[i].data[1], 1)

Failed == {i \in DOMAIN bus : bus[i].st # 0}

C8_WhoAmI ==
    [][ op' = "testWhoAmI" =>
            /\ Len(bus') = 1
            /\ IsRead(bus'[1], PrimaryAddr, RegWhoAmI, 1)
            /\ who' <=> (bus'[1].st = 0 /\ bus'[1].data = <<IdMPU9250>>)
            /\ _opmode' = _opmode
            /\ _magfs' = _magfs
            /\ dev' = dev
      ]_vars

\* testWhoAmI answered true.
C8_Witness ==
    /\ op = "testWhoAmI"
    /\ who
    /\ bus[1].data = <<IdMPU9250>>

\* C9: init issues the reset write, the clock-select/wake write, the
\* bypass-enable write and the identity read in this order; the first failed
\* transaction is its last and gives a non-zero status; it returns 0 only
\* when all four succeeded and the identity byte is 0x71.
C9_InitOrder ==
    op = "init" =>
        /\ Len(bus) \in 1..4
        /\ \A i \in DOMAIN bus : i < Len(bus) => bus[i].st = 0
        /\ Len(bus) < 4 => bus[Len(bus)].st # 0
        /\ IsWrite(bus[1], PrimaryAddr, RegPwrMgmt1) /\ Bit(bus[1].data[1], 7)
        /\ Len(bus) >= 2 =>
              /\ IsWrite(bus[2], PrimaryAddr, RegPwrMgmt1)
              /\ ~Bit(bus[2].data[1], 7)
              /\ ~Bit(bus[2].data[1], 6)
              /\ bus[2].data[1] % 8 = 1
        /\ Len(bus) >= 3 =>
              IsWrite(bus[3], PrimaryAddr, RegIntPinCfg) /\ Bit(bus[3].data[1], 1)
        /\ Len(bus) >= 4 => IsRead(bus[4], PrimaryAddr, RegWhoAmI, 1)
        /\ ~AllOk(bus) => ret # 0
        /\ ret = 0 <=> (Len(bus) = 4 /\ AllOk(bus) /\ bus[4].data = <<IdMPU9250>>)

\* init failed on the identity byte although every transaction succeeded.
C9_Witness ==
    /\ op = "init"
    /\ Len(bus) = 4
    /\ AllOk(bus)
    /\ ret # 0

\* C10: readAccelData and readGyroData decode axis i as the signed 16-bit value
\* of (byte 2i-1 << 8) | byte 2i, readMagData as that of (byte 2i << 8) |
\* byte 2i-1; a value with bit 15 set is negative.
C10_ByteOrder ==
    /\ (op = "readAccelData" /\ bus[1].st = 0) =>
          \A i \in 1..3 :
              /\ destination[i] = BigEndian(bus[1].data, i)
              /\ destination[i] < 0 <=> bus[1].data[2 * i - 1] >= 128
    /\ (op = "readGyroData" /\ ret = 0 /\ bus # <<>>) =>
          \A i \in 1..3 :
              /\ destination[i] = BigEndian(bus[1].data, i)
              /\ destination[i] < 0 <=> bus[1].data[2 * i - 1] >= 128
    /\ (op = "readMagData" /\ ret = 0) =>
          \A i \in 1..3 :
              /\ destination[i] = LittleEndian(bus[2].data, i)
              /\ destination[i] < 0 <=> bus[2].data[2 * i] >= 128

\* A magnetometer read whose first axis is negative and whose second, with
\* the same two bytes swapped, is positive.
C10_Witness ==
    /\ op = "readMagData"
    /\ ret = 0
    /\ destination[1] < 0
    /\ destination[2] > 0
    /\ bus[2].data[1] # bus[2].data[2]

\* C11: readMagData returns 0 only if the ready bit was set, the overflow bit
\* was clear and, with LP_ACCMAG recorded, the re-arming write to AK8963_CNTL
\* succeeded; a call in which a bus transaction failed never returns 0.
C11_GoodOnlyIfRearmed ==
    op = "readMagData" =>
        /\ ret = 0 =>
              /\ MagReadySet
              /\ MagSt2Read
              /\ ~Bit(bus[3].data[1], 3)
              /\ _opmode = LP_ACCMAG =>
                    /\ CntlWrites(bus) # {}
                    /\ \A i \in CntlWrites(bus) : bus[i].st = 0
        /\ ~AllOk(bus) => ret # 0

\* In LP_ACCMAG a sample was ready and sound, and the re-arming write failed.
C11_Witness ==
    /\ op = "readMagData"
    /\ _opmode = LP_ACCMAG
    /\ MagReadySet
    /\ MagSt2Read
    /\ ~Bit(bus[3].data[1], 3)
    /\ Len(bus) = 4
    /\ bus[4].st # 0
    /\ ret # 0

\* C12: readAccelData, in every recorded mode and whatever earlier operations
\* returned, issues exactly one bus transaction, a 6-byte read starting at
\* ACCEL_XOUT_H on the primary device address, and never addresses the
\* magnetometer.
C12_AccelReadOnce ==
    op = "readAccelData" =>
        /\ Len(bus) = 1
        /\ IsRead(bus[1], PrimaryAddr, RegAccelOut, 6)
        /\ \A i \in DOMAIN bus : bus[i].addr # MagAddr

\* readAccelData read the accelerometer in VLP_ACC on a device whose bypass
\* bit was never set (init failed before writing it).
C12_Witness ==
    /\ op = "readAccelData"
    /\ _opmode = VLP_ACC
    /\ ~Bit(dev.intcfg, 1)
    /\ Len(bus) = 1
    /\ bus[1].st = 0
    /\ destination[1] < 0

\* The transactions of a readMagData call by position: ST1, the six data
\* bytes, ST2, the write to AK8963_CNTL (only in LP_ACCMAG).
MagOrder ==
    /\ Len(bus) \in 1..4
    /\ IsRead(bus[1], MagAddr, RegMagSt1, 1)
    /\ Len(bus) >= 2 => IsRead(bus[2], MagAddr, RegMagOut, 6)
    /\ Len(bus) >= 3 => IsRead(bus[3], MagAddr, RegMagSt2, 1)
    /\ Len(bus) >= 4 => (_opmode = LP_ACCMAG /\ IsWrite(bus[4], MagAddr, RegMagCntl))

\* C13 as stated: the transactions of a readMagData call are in the order ST1
\* read, 6-byte data read, ST2 read, then (only in LP_ACCMAG) the write to
\* AK8963_CNTL; with the ready bit clear the ST1 read is the only one; and
\* whenever the 6-byte data read is issued the ST2 read follows it.
C13_OrderAlways ==
    op = "readMagData" =>
        /\ MagOrder
        /\ MagReadyClear => Len(bus) = 1
        /\ MagDataReads # {} => Len(bus) >= 3

\* C13 as amended: the same order; with the ready bit clear the ST1 read is
\* the only transaction; the ST2 read follows the 6-byte data read whenever
\* that read succeeded, and a failed data read is the call's last transaction.
C13_Order ==
    op = "readMagData" =>
        /\ MagOrder
        /\ MagReadyClear => Len(bus) = 1
        /\ (Len(bus) >= 2 /\ bus[2].st = 0) => Len(bus) >= 3
        /\ (Len(bus) >= 2 /\ bus[2].st # 0) => Len(bus) = 2

\* A call in LP_ACCMAG that issued all four transactions.
C13_Witness ==
    /\ op = "readMagData"
    /\ _opmode = LP_ACCMAG
    /\ Len(bus) = 4
    /\ AllOk(bus)

\* C14: a successful setParameters(mode, ., magScale, .) writes AK8963_CNTL
\* once, with magScale in the resolution bit and in bits 3:0 the submode of
\* the mode: 0 (power down) for VLP_ACC, 1 (single shot) for LP_ACCMAG, 2 or 6
\* (continuous) for HP_ALL and HPP_ALL; successful calls for HP_ALL and for
\* HPP_ALL write different submodes.
C14_MagControl ==
    [][ (op' = "setParameters" /\ ret' = 0) =>
            /\ Cardinality(CntlWrites(bus')) = 1
            /\ \A i \in CntlWrites(bus') :
                  /\ bus'[i].st = 0
                  /\ bus'[i].data[1] = args'[3] + (bus'[i].data[1] % 16)
                  /\ args'[1] = VLP_ACC => bus'[i].data[1] % 16 = 0
                  /\ args'[1] = LP_ACCMAG => bus'[i].data[1] % 16 = 1
                  /\ args'[1] \in {HP_ALL, HPP_ALL} => bus'[i].data[1] % 16 \in {2, 6}
                  /\ (op = "setParameters" /\ ret = 0
                        /\ {args[1], args'[1]} = {HP_ALL, HPP_ALL}) =>
                        \A j \in CntlWrites(bus) :
                            bus[j].data[1] % 16 # bus'[i].data[1] % 16
      ]_vars

\* setParameters succeeded for HPP_ALL at 16 bits: continuous, resolution bit set.
C14_Witness ==
    /\ op = "setParameters"
    /\ ret = 0
    /\ args[1] = HPP_ALL
    /\ args[3] = 16
    /\ \E i \in CntlWrites(bus) : bus[i].data[1] >= 16 /\ bus[i].data[1] % 16 \in {2, 6}

\* C15: the value readMagData writes to AK8963_CNTL when it re-arms is the
\* recorded resolution _magfs with the single-measurement submode (1) in bits
\* 3:0, and an acknowledged re-arming write leaves exactly that in the
\* register; _magfs is the magScale of the most recent successful
\* setParameters: such a call records its magScale and nothing else changes
\* _magfs.
C15_RearmKeepsResolution ==
    [][ /\ op' = "readMagData" =>
              \A i \in CntlWrites(bus') :
                  /\ bus'[i].data[1] = _magfs + 1
                  /\ bus'[i].st = 0 => dev'.cntl = _magfs + 1
        /\ (op' = "setParameters" /\ ret' = 0) => _magfs' = args'[3]
        /\ ~(op' = "setParameters" /\ ret' = 0) => _magfs' = _magfs
      ]_vars

\* A re-arming write at 16 bits, the resolution a successful setParameters
\* recorded (the register held it before the call).
C15_Witness ==
    /\ op = "readMagData"
    /\ _opmode = LP_ACCMAG
    /\ _magfs = 16
    /\ ret = 0
    /\ \E i \in CntlWrites(bus) : bus[i].data[1] = 17
    /\ dev.cntl = 17

\* C16: init, testWhoAmI, readAccelData, readGyroData and readMagData leave
\* _opmode and _magfs as they were, whatever they return and whether or not a
\* transaction failed; only setParameters changes them.
C16_OnlySetParametersRecords ==
    [][ /\ op' \in {"init", "testWhoAmI", "readAccelData", "readGyroData", "readMagData"} =>
              (_opmode' = _opmode /\ _magfs' = _magfs)
        /\ <<_opmode', _magfs'>> # <<_opmode, _magfs>> => op' = "setParameters"
      ]_vars

\* readMagData failed at its re-arming write, with the configuration a
\* successful setParameters recorded (LP_ACCMAG at 16 bits) still in place.
C16_Witness ==
    /\ op = "readMagData"
    /\ Len(bus) = 4
    /\ bus[4].st # 0
    /\ ret # 0
    /\ _opmode = LP_ACCMAG
    /\ _magfs = 16
    /\ dev.cntl = 16

\* C17: with LP_ACCMAG recorded, a magnetometer that powers down after each
\* single measurement and no transport failure, a readMagData call that found
\* the ready bit set leaves a single measurement started when it returns
\* (bits 3:0 of AK8963_CNTL are 1), whether it returns 0 or 2, so that later
\* calls do not return 1 for ever.
C17_MeasurementInFlight ==
    (op = "readMagData" /\ _opmode = LP_ACCMAG /\ AllOk(bus) /\ MagReadySet) =>
        dev.cntl % 16 = 1

\* The mode readGyroData gates by has the gyroscope on exactly when the
\* MPU_GYRO_DIS bits (2:0) of PWR_MGMT_2 are clear in the device.
GateMatchesPower == (_opmode \in {HP_ALL, HPP_ALL}) <=> (dev.pwr2 % 8 = 0)

\* C18: the recorded mode readGyroData gates by and the gyroscope power bits
\* the driver last wrote to PWR_MGMT_2 agree after any sequence of operations:
\* no operation, a setParameters call that fails partway through its writes
\* included, takes a state in which they agree to one in which readGyroData
\* reports "disabled" with the bits clear or reads the gyroscope with the
\* bits set.
C18_GateFollowsPower ==
    [][ GateMatchesPower => GateMatchesPower' ]_vars

====
